---- MODULE Spec2Model ----
(***************************************************************************)
(* Model of the lead-capture system:                                       *)
(*   - the send-confirmation edge function (requestHandler and the         *)
(*     functions it calls), specification Spec;                            *)
(*   - the LeadCaptureForm React component, specification FormSpec.        *)
(*                                                                         *)
(* JavaScript values are tagged records, texts are sequences of      *)
(* string tokens so that template interpolation and String.replace can be  *)
(* computed, and a JSON body is the function from its keys to values that  *)
(* JSON.stringify produces (keys with an undefined value are dropped).     *)
(***************************************************************************)
EXTENDS Integers, Sequences, FiniteSets, TLC

\* ------------------------------------------------------------------------
\* Bounds
\* ------------------------------------------------------------------------
\* number of requests the server handles (concurrently) in one behaviour
MaxRequests == 2

Reqs == 1..MaxRequests

\* ------------------------------------------------------------------------
\* JavaScript values
\* ------------------------------------------------------------------------
JUndefined == [t |-> "undefined"]
JNull == [t |-> "null"]
JStr(s) == [t |-> "string", s |-> s]
JNum(n) == [t |-> "number", n |-> n]
JObj(f) == [t |-> "object", o |-> f]
JArr(q) == [t |-> "array", a |-> q]
JBool(b) == [t |-> "boolean", b |-> b]

\* the empty function: an object without properties
NoProps == [k \in {} |-> JUndefined]

IsNullish(v) == v.t \in {"undefined", "null"}

\* JavaScript truthiness (the left operand of ||)
Truthy(v) ==
  CASE v.t \in {"undefined", "null"} -> FALSE
    [] v.t = "string" -> v.s # <<>>
    [] v.t = "number" -> v.n # 0
    [] v.t = "boolean" -> v.b
    [] OTHER -> TRUE

\* v.key for a non-nullish v
GetProp(v, key) ==
  IF v.t = "object" /\ key \in DOMAIN v.o THEN v.o[key] ELSE JUndefined

\* v[0] for a non-nullish v
FirstElem(v) ==
  IF v.t = "array" /\ Len(v.a) > 0 THEN v.a[1] ELSE JUndefined

\* `${v}` : template-literal interpolation of a value into a text
Interp(v) ==
  CASE v.t = "string" -> v.s
    [] v.t = "undefined" -> <<"undefined">>
    [] v.t = "null" -> <<"null">>
    [] v.t = "number" -> <<"<number>">>
    [] v.t = "array" -> <<"<array>">>
    [] OTHER -> <<"[object Object]">>

\* ------------------------------------------------------------------------
\* send-confirmation edge function: constants
\* ------------------------------------------------------------------------
HTTP_HEADERS_CORS ==
  ("Access-Control-Allow-Origin" :> "*") @@
  ("Access-Control-Allow-Headers" :> "authorization, x-client-info, apikey, content-type")

HTTP_HEADERS_JSON == ("Content-Type" :> "application/json")

\* mutant: the CORS headers are not spread into the response headers
JsonCorsHeaders_NoCors == HTTP_HEADERS_JSON

\* { ...HTTP_HEADERS.JSON, ...HTTP_HEADERS.CORS } : later spreads win
JsonCorsHeaders == HTTP_HEADERS_CORS @@ HTTP_HEADERS_JSON

EMAIL_FROM == <<"Innovation Community <testing-email@lovable.dev>">>

\* ------------------------------------------------------------------------
\* send-confirmation edge function: pure functions
\* ------------------------------------------------------------------------
generateFallbackMessage(name, industry) ==
  JStr(<<"Hello ">> \o Interp(name)
       \o <<"! Welcome to our innovation community! We're excited to have a ">>
       \o Interp(industry)
       \o <<" professional join our network. [...] Your innovation adventure starts now!">>)

\* responseData?.choices[0]?.message?.content, a value or a TypeError
FirstCompletionContent(responseData) ==
  IF IsNullish(responseData) THEN [threw |-> FALSE, v |-> JUndefined]
  ELSE LET choices == GetProp(responseData, "choices") IN
    IF IsNullish(choices) THEN [threw |-> TRUE, v |-> JUndefined]
    ELSE LET first == FirstElem(choices) IN
      IF IsNullish(first) THEN [threw |-> FALSE, v |-> JUndefined]
      ELSE LET message == GetProp(first, "message") IN
        IF IsNullish(message) THEN [threw |-> FALSE, v |-> JUndefined]
        ELSE [threw |-> FALSE, v |-> GetProp(message, "content")]

\* mutant: the `|| generateFallbackMessage(...)` of the return is missing
ContentFromResponse_NoFallback(responseData, name, industry) ==
  LET c == FirstCompletionContent(responseData) IN
    IF c.threw THEN generateFallbackMessage(name, industry) ELSE c.v

\* mutant: the generated text is dropped and the template always used
ContentFromResponse_AlwaysFallback(responseData, name, industry) ==
  generateFallbackMessage(name, industry)

\* the value createPersonalizedWelcomeMessage returns once the body of the
\* text-generation response has been parsed to responseData
ContentFromResponse(responseData, name, industry) ==
  LET c == FirstCompletionContent(responseData) IN
    IF c.threw THEN generateFallbackMessage(name, industry)
    ELSE IF Truthy(c.v) THEN c.v
    ELSE generateFallbackMessage(name, industry)

\* text.replace(/\n/g, '<br>')
RECURSIVE ReplaceNewlines(_)
ReplaceNewlines(text) ==
  IF text = <<>> THEN <<>>
  ELSE <<IF Head(text) = "\n" THEN "<br>" ELSE Head(text)>>
       \o ReplaceNewlines(Tail(text))

\* personalizedMessage is a string here (see TemplateThrows)
buildEmailTemplate(name, industry, personalizedMessage) ==
  <<"<div><header>Innovation Revolution Awaits!</header><main>">>
  \o ReplaceNewlines(personalizedMessage.s)
  \o <<"</main><section>insights for ">> \o Interp(industry)
  \o <<" transformation; access to revolutionary ">> \o Interp(industry)
  \o <<" innovations; network with top ">> \o Interp(industry)
  \o <<" innovators; solutions to ">> \o Interp(industry)
  \o <<" industry challenges</section><footer>Ready to transform ">>
  \o Interp(industry) \o <<"?</footer></div>">>

\* personalizedMessage.replace is not a function unless it is a string
TemplateThrows(personalizedMessage) == personalizedMessage.t # "string"

\* JSON.stringify of an object literal: undefined properties are left out
JSONStringify(props) ==
  JObj([k \in {x \in DOMAIN props : props[x].t # "undefined"} |-> props[k]])

\* emailResult.data?.id
MessageIdOf(emailResult) ==
  LET data == GetProp(emailResult, "data") IN
    IF IsNullish(data) THEN JUndefined ELSE GetProp(data, "id")

SuccessResponse(emailResult) ==
  [status |-> 200,
   headers |-> JsonCorsHeaders,
   body |-> JSONStringify(("success" :> JBool(TRUE)) @@
                          ("messageId" :> MessageIdOf(emailResult)) @@
                          ("status" :> JStr(<<"delivered">>)))]

\* new Date().toISOString()
NowISO == JStr(<<"<ISO-8601 instant>">>)

\* mutant: the catch block reads a property the Error does not have
FailureResponse_NoMessage(error) ==
  [status |-> 500,
   headers |-> JsonCorsHeaders,
   body |-> JSONStringify(("success" :> JBool(FALSE)) @@
                          ("error" :> GetProp(error, "msg")) @@
                          ("timestamp" :> NowISO))]

\* the catch block of requestHandler; error is the thrown Error object
FailureResponse(error) ==
  [status |-> 500,
   headers |-> JsonCorsHeaders,
   body |-> JSONStringify(("success" :> JBool(FALSE)) @@
                          ("error" :> GetProp(error, "message")) @@
                          ("timestamp" :> NowISO))]

PreflightResponse == [status |-> 200, headers |-> HTTP_HEADERS_CORS, body |-> JNull]

\* an Error object with the given message
JError(msg) == JObj("message" :> JStr(msg))

\* ------------------------------------------------------------------------
\* send-confirmation edge function: inputs and outcomes of the awaits
\* ------------------------------------------------------------------------
Methods == {"OPTIONS", "POST"}

LeadJohn ==
  JObj(("name" :> JStr(<<"John Doe">>)) @@
       ("email" :> JStr(<<"john@example.com">>)) @@
       ("industry" :> JStr(<<"technology">>)))

\* a request body: text that request.json() parses to v, or fails to parse
Parsed(v) == [ok |-> TRUE, v |-> v]
Unparseable == [ok |-> FALSE, v |-> JUndefined]

RequestBodies == {Unparseable, Parsed(JNull), Parsed(JObj(NoProps)), Parsed(LeadJohn)}

Completion(content) == JObj("message" :> JObj("content" :> content))

AIText == JStr(<<"Welcome, John!", "\n", "Let's transform technology.">>)

\* bodies of the text-generation response, as aiResponse.json() yields them
AIResponseBodies ==
  { Unparseable,
    Parsed(JNull),
    Parsed(JObj("error" :> JObj("message" :> JStr(<<"invalid api key">>)))),
    Parsed(JObj("choices" :> JArr(<<>>))),
    Parsed(JObj("choices" :> JArr(<<JObj("message" :> JObj(NoProps))>>))),
    Parsed(JObj("choices" :> JArr(<<Completion(JStr(<<>>))>>))),
    Parsed(JObj("choices" :> JArr(<<Completion(AIText)>>))),
    Parsed(JObj("choices" :> JArr(<<Completion(JNum(42))>>))) }

MessageIds == {<<"id-a">>, <<"id-b">>}

\* how emailClient.emails.send settles: it rejects, or resolves to
\* { data, error } with exactly one of the two set
Rejected(msg) == [k |-> "throw", v |-> JError(msg)]
Resolved(v) == [k |-> "resolve", v |-> v]

SendOutcomes ==
  { Rejected(<<"fetch failed">>) } \cup
  { Resolved(JObj(("data" :> JObj("id" :> JStr(id))) @@ ("error" :> JNull))) : id \in MessageIds } \cup
  { Resolved(JObj(("data" :> JNull) @@
                  ("error" :> JObj(("name" :> JStr(<<"validation_error">>)) @@
                                   ("message" :> JStr(<<"API key is invalid">>)))))) }

\* ------------------------------------------------------------------------
\* LeadCaptureForm: constants, inputs and validation
\* ------------------------------------------------------------------------
\* number of submit events on one mounted form in one behaviour
MaxSubmits == 3

\* length of the over-long name the user may type
LongNameLen == 51

INDUSTRY_OPTIONS ==
  {"technology", "healthcare", "finance", "education", "retail",
   "manufacturing", "consulting", "other"}

INITIAL_FORM_STATE == [name |-> <<>>, email |-> <<>>, industry |-> ""]

\* texts typed into the form are sequences of characters
NameInputs == { <<>>, <<"J">>, <<"J", "o">>, [i \in 1..LongNameLen |-> "x"] }
EmailInputs == { <<>>, <<"b", "a", "d">>, <<"j", "@", "e", ".", "c">> }
IndustryInputs == {"technology", "other"}

FieldInputs(fieldName) ==
  CASE fieldName = "name" -> NameInputs
    [] fieldName = "email" -> EmailInputs
    [] fieldName = "industry" -> IndustryInputs

\* String.prototype.trim on a sequence of characters
RECURSIVE TrimLeft(_)
TrimLeft(text) ==
  IF text # <<>> /\ Head(text) = " " THEN TrimLeft(Tail(text)) ELSE text

RECURSIVE TrimRight(_)
TrimRight(text) ==
  IF text # <<>> /\ text[Len(text)] = " "
  THEN TrimRight(SubSeq(text, 1, Len(text) - 1)) ELSE text

Trim(text) == TrimRight(TrimLeft(text))

\* local@domain with at least one dot inside the domain, no blanks
IsEmailShape(text) ==
  \E at \in 1..Len(text), dot \in 1..Len(text) :
    /\ text[at] = "@"
    /\ text[dot] = "."
    /\ 1 < at /\ at + 1 < dot /\ dot < Len(text)
    /\ \A i \in 1..Len(text) : text[i] # " " /\ (text[i] = "@" => i = at)

NameErrors(data) ==
  LET n == Len(Trim(data.name)) IN
    IF n = 0 THEN <<[field |-> "name", message |-> "Name is required"]>>
    ELSE IF n < 2 \/ n > 50
    THEN <<[field |-> "name", message |-> "Name must be between 2 and 50 characters"]>>
    ELSE <<>>

EmailErrors(data) ==
  IF IsEmailShape(data.email) THEN <<>>
  ELSE <<[field |-> "email", message |-> "Please enter a valid email address"]>>

IndustryErrors(data) ==
  IF data.industry \in INDUSTRY_OPTIONS THEN <<>>
  ELSE <<[field |-> "industry", message |-> "Please select an industry"]>>

\* mutant: the email rule is evaluated before the name rule
validateLeadForm_EmailFirst(data) ==
  EmailErrors(data) \o NameErrors(data) \o IndustryErrors(data)

validateLeadForm(data) == NameErrors(data) \o EmailErrors(data) \o IndustryErrors(data)

\* prev.filter(error => error.field !== fieldName)
RECURSIVE WithoutField(_, _)
WithoutField(errs, fieldName) ==
  IF errs = <<>> THEN <<>>
  ELSE IF Head(errs).field = fieldName THEN WithoutField(Tail(errs), fieldName)
  ELSE <<Head(errs)>> \o WithoutField(Tail(errs), fieldName)

\* errors.some(error => error.field === fieldName)
HasFieldError(errs, fieldName) == \E i \in 1..Len(errs) : errs[i].field = fieldName

\* how supabase.functions.invoke settles: { error: null }, { error }, or
\* the promise rejects
InvokeOutcomes == {"ok", "error", "throw"}


\* ------------------------------------------------------------------------
\* State
\* ------------------------------------------------------------------------
VARIABLES
  pc,            \* per request: where requestHandler is suspended
  request,       \* per request: [method, body]
  bodyRead,      \* per request: request.json() has been called
  aiCalls,       \* per request: number of fetch calls to the text-generation API
  aiOutcome,     \* per request: how the text-generation call ended
  customContent, \* per request: the value createPersonalizedWelcomeMessage returned
  sends,         \* per request: the arguments of each emailClient.emails.send call
  sendOutcome,   \* per request: how each send call settled
  responses      \* per request: the responses requestHandler returned

hvars == <<pc, request, bodyRead, aiCalls, aiOutcome, customContent, sends,
           sendOutcome, responses>>

VARIABLES
  formData,      \* useState: the form fields
  errors,        \* useState: the validation errors shown
  isSubmitted,   \* useState: the success view is shown
  leadRecords,   \* useState: the locally recorded leads
  isLoading,     \* useState: a submission is being processed
  rendered,      \* the state of the last render: what the user sees and what
                 \* the event handlers of that render closed over
  renderPending, \* state was set outside an event handler and is not rendered yet
  inFlight,      \* handleFormSubmission calls suspended in supabase.functions.invoke
  submits,       \* number of submit events handled
  settledOk,     \* number of invocations that returned without error
  settledFailed, \* number of invocations that returned an error or threw
  uncaught,      \* a handleFormSubmission promise was rejected
  now            \* the clock read by new Date()

fvars == <<formData, errors, isSubmitted, leadRecords, isLoading, rendered,
           renderPending, inFlight, submits, settledOk, settledFailed, uncaught, now>>

vars == <<hvars, fvars>>

NoRequest == [method |-> "", body |-> Unparseable]
NoOutcome == [k |-> "none", v |-> JUndefined]

HandlerInit ==
  /\ pc = [r \in Reqs |-> "idle"]
  /\ request = [r \in Reqs |-> NoRequest]
  /\ bodyRead = [r \in Reqs |-> FALSE]
  /\ aiCalls = [r \in Reqs |-> 0]
  /\ aiOutcome = [r \in Reqs |-> NoOutcome]
  /\ customContent = [r \in Reqs |-> JUndefined]
  /\ sends = [r \in Reqs |-> <<>>]
  /\ sendOutcome = [r \in Reqs |-> <<>>]
  /\ responses = [r \in Reqs |-> <<>>]

\* the component after mounting (the mount effect sets isSubmitted to false)
FormInit ==
  /\ formData = INITIAL_FORM_STATE
  /\ errors = <<>>
  /\ isSubmitted = FALSE
  /\ leadRecords = <<>>
  /\ isLoading = FALSE
  /\ rendered = [formData |-> INITIAL_FORM_STATE, errors |-> <<>>,
                 isSubmitted |-> FALSE, isLoading |-> FALSE]
  /\ renderPending = FALSE
  /\ inFlight = <<>>
  /\ submits = 0
  /\ settledOk = 0
  /\ settledFailed = 0
  /\ uncaught = FALSE
  /\ now = 0

Init == HandlerInit /\ FormInit

\* the fields processEmailDelivery destructures from the request body
NameOf(r) == GetProp(request[r].body.v, "name")
EmailOf(r) == GetProp(request[r].body.v, "email")
IndustryOf(r) == GetProp(request[r].body.v, "industry")

\* requestHandler returns a response (from the try block or the catch block)
Respond(r, resp) ==
  /\ responses' = [responses EXCEPT ![r] = Append(@, resp)]
  /\ pc' = [pc EXCEPT ![r] = "done"]

\* the argument of emailClient.emails.send
SendRequest(r, content) ==
  [from |-> EMAIL_FROM,
   to |-> <<EmailOf(r)>>,
   subject |-> <<"Rocket ">> \o Interp(NameOf(r)) \o <<", Welcome to the Innovation Revolution!">>,
   html |-> buildEmailTemplate(NameOf(r), IndustryOf(r), content)]

\* processEmailDelivery from the point where createPersonalizedWelcomeMessage
\* has returned content: render the template, then call the delivery API
RenderAndSend(r, content) ==
  /\ customContent' = [customContent EXCEPT ![r] = content]
  /\ IF TemplateThrows(content)
     THEN /\ Respond(r, FailureResponse(JError(<<"personalizedMessage.replace is not a function">>)))
          /\ UNCHANGED sends
     ELSE /\ sends' = [sends EXCEPT ![r] = Append(@, SendRequest(r, content))]
          /\ pc' = [pc EXCEPT ![r] = "awaitSend"]
          /\ UNCHANGED responses

\* A request arrives and requestHandler runs to its first await.
\* Requests are numbered in the order of their arrival.
Receive(r, method, body) ==
  /\ pc[r] = "idle"
  /\ IF r = 1 THEN TRUE ELSE pc[r - 1] # "idle"
  /\ request' = [request EXCEPT ![r] = [method |-> method, body |-> body]]
  /\ IF method = "OPTIONS"
     THEN /\ Respond(r, PreflightResponse)
          /\ UNCHANGED bodyRead
     ELSE /\ bodyRead' = [bodyRead EXCEPT ![r] = TRUE]
          /\ pc' = [pc EXCEPT ![r] = "awaitBody"]
          /\ UNCHANGED responses
  /\ UNCHANGED <<aiCalls, aiOutcome, customContent, sends, sendOutcome>>
  /\ UNCHANGED fvars

\* await request.json() settles; on success processEmailDelivery starts and
\* createPersonalizedWelcomeMessage issues the fetch
BodySettles(r) ==
  /\ pc[r] = "awaitBody"
  /\ IF ~request[r].body.ok
     THEN /\ Respond(r, FailureResponse(JError(<<"Unexpected token in JSON">>)))
          /\ UNCHANGED aiCalls
     ELSE IF IsNullish(request[r].body.v)
     THEN /\ Respond(r, FailureResponse(JError(<<"Cannot destructure property 'name' of 'requestData'">>)))
          /\ UNCHANGED aiCalls
     ELSE /\ aiCalls' = [aiCalls EXCEPT ![r] = @ + 1]
          /\ pc' = [pc EXCEPT ![r] = "awaitFetch"]
          /\ UNCHANGED responses
  /\ UNCHANGED <<request, bodyRead, aiOutcome, customContent, sends, sendOutcome>>
  /\ UNCHANGED fvars

\* await fetch(...) settles: the promise rejects (caught: fallback), or a
\* response arrives and aiResponse.json() is awaited
FetchSettles(r, ok) ==
  /\ pc[r] = "awaitFetch"
  /\ IF ok
     THEN /\ pc' = [pc EXCEPT ![r] = "awaitJson"]
          /\ UNCHANGED <<aiOutcome, customContent, sends, responses>>
     ELSE /\ aiOutcome' = [aiOutcome EXCEPT ![r] = [k |-> "reject", v |-> JUndefined]]
          /\ RenderAndSend(r, generateFallbackMessage(NameOf(r), IndustryOf(r)))
  /\ UNCHANGED <<request, bodyRead, aiCalls, sendOutcome>>
  /\ UNCHANGED fvars

\* await aiResponse.json() settles: a SyntaxError (caught: fallback) or
\* responseData, from which the content is taken
JsonSettles(r, parsed) ==
  /\ pc[r] = "awaitJson"
  /\ IF parsed.ok
     THEN /\ aiOutcome' = [aiOutcome EXCEPT ![r] = [k |-> "json", v |-> parsed.v]]
          /\ RenderAndSend(r, ContentFromResponse(parsed.v, NameOf(r), IndustryOf(r)))
     ELSE /\ aiOutcome' = [aiOutcome EXCEPT ![r] = [k |-> "notjson", v |-> JUndefined]]
          /\ RenderAndSend(r, generateFallbackMessage(NameOf(r), IndustryOf(r)))
  /\ UNCHANGED <<request, bodyRead, aiCalls, sendOutcome>>
  /\ UNCHANGED fvars

\* mutant: a rejected send is retried once
SendSettles_Retry(r, outcome) ==
  /\ pc[r] = "awaitSend"
  /\ sendOutcome' = [sendOutcome EXCEPT ![r] = Append(@, outcome)]
  /\ IF outcome.k = "throw" /\ Len(sends[r]) < 2
     THEN /\ sends' = [sends EXCEPT ![r] = Append(@, sends[r][1])]
          /\ UNCHANGED <<pc, responses>>
     ELSE /\ UNCHANGED sends
          /\ IF outcome.k = "throw"
             THEN Respond(r, FailureResponse(outcome.v))
             ELSE Respond(r, SuccessResponse(outcome.v))
  /\ UNCHANGED <<request, bodyRead, aiCalls, aiOutcome, customContent>>
  /\ UNCHANGED fvars

\* await emailClient.emails.send(...) settles
SendSettles(r, outcome) ==
  /\ pc[r] = "awaitSend"
  /\ sendOutcome' = [sendOutcome EXCEPT ![r] = Append(@, outcome)]
  /\ IF outcome.k = "throw"
     THEN Respond(r, FailureResponse(outcome.v))
     ELSE Respond(r, SuccessResponse(outcome.v))
  /\ UNCHANGED <<request, bodyRead, aiCalls, aiOutcome, customContent, sends>>
  /\ UNCHANGED fvars

Next ==
  \/ \E r \in Reqs, method \in Methods, body \in RequestBodies : Receive(r, method, body)
  \/ \E r \in Reqs : BodySettles(r)
  \/ \E r \in Reqs, ok \in BOOLEAN : FetchSettles(r, ok)
  \/ \E r \in Reqs, parsed \in AIResponseBodies : JsonSettles(r, parsed)
  \/ \E r \in Reqs, outcome \in SendOutcomes : SendSettles(r, outcome)

Spec == Init /\ [][Next]_vars

\* ------------------------------------------------------------------------
\* Properties of the send-confirmation edge function (checked under Spec)
\* ------------------------------------------------------------------------
\* the text of the first completion in a parsed text-generation response,
\* JUndefined when there is none
CompletionOf(d) ==
  IF d.t = "object" /\ "choices" \in DOMAIN d.o /\ d.o["choices"].t = "array"
     /\ Len(d.o["choices"].a) > 0
     /\ d.o["choices"].a[1].t = "object"
     /\ "message" \in DOMAIN d.o["choices"].a[1].o
     /\ d.o["choices"].a[1].o["message"].t = "object"
     /\ "content" \in DOMAIN d.o["choices"].a[1].o["message"].o
  THEN d.o["choices"].a[1].o["message"].o["content"]
  ELSE JUndefined

\* the text-generation call of r failed: fetch rejected, the body was not
\* JSON, or the response carries no (non-empty) content of a first completion
AIFailed(r) ==
  \/ aiOutcome[r].k \in {"reject", "notjson"}
  \/ /\ aiOutcome[r].k = "json"
     /\ \/ IsNullish(CompletionOf(aiOutcome[r].v))
        \/ CompletionOf(aiOutcome[r].v) = JStr(<<>>)

\* the text-generation call of r returned the text of a first completion
AIReturnedText(r) ==
  /\ aiOutcome[r].k = "json"
  /\ CompletionOf(aiOutcome[r].v).t = "string"
  /\ CompletionOf(aiOutcome[r].v) # JStr(<<>>)

SendThrew(r) == Len(sendOutcome[r]) > 0 /\ sendOutcome[r][1].k = "throw"

SendReturnedError(r) ==
  /\ Len(sendOutcome[r]) > 0
  /\ sendOutcome[r][1].k = "resolve"
  /\ sendOutcome[r][1].v.o["data"] = JNull
  /\ sendOutcome[r][1].v.o["error"] # JNull

SendSucceeded(r) ==
  /\ Len(sendOutcome[r]) > 0
  /\ sendOutcome[r][1].k = "resolve"
  /\ sendOutcome[r][1].v.o["data"] # JNull
  /\ sendOutcome[r][1].v.o["error"] = JNull

IsSuccessResponse(resp) ==
  /\ resp.status = 200
  /\ resp.body.t = "object"
  /\ "success" \in DOMAIN resp.body.o
  /\ resp.body.o["success"] = JBool(TRUE)

IsFailureResponse(resp) ==
  /\ resp.status = 500
  /\ resp.body.t = "object"
  /\ "success" \in DOMAIN resp.body.o
  /\ resp.body.o["success"] = JBool(FALSE)

\* C1: when the text-generation call fails (fetch rejects, body not JSON, no
\* choices, empty choices, first completion without content) the handler
\* still calls the email-delivery API, and if that call succeeds the one
\* response is the success result (200, success: true), never a failure.
C1_AIFailureStillDelivers ==
  \A r \in Reqs :
    AIFailed(r) =>
      /\ Len(sends[r]) = 1
      /\ pc[r] \in {"awaitSend", "done"}
      /\ \A i \in 1..Len(responses[r]) :
           SendSucceeded(r) => IsSuccessResponse(responses[r][i])
      /\ (pc[r] = "done" /\ SendSucceeded(r)) =>
           Len(responses[r]) = 1 /\ IsSuccessResponse(responses[r][1])

C1_Witness ==
  \E r \in Reqs :
    /\ aiOutcome[r].k = "json"
    /\ aiOutcome[r].v = JObj("choices" :> JArr(<<>>))
    /\ SendSucceeded(r)
    /\ pc[r] = "done"
    /\ Len(responses[r]) = 1

\* C2: when the delivery call fails (send throws, or resolves to a result
\* with an error and no data) the handler responds with HTTP 500,
\* success: false and a populated error field.
C2_DeliveryFailureIs500 ==
  \A r \in Reqs :
    (pc[r] = "done" /\ (SendThrew(r) \/ SendReturnedError(r))) =>
      /\ Len(responses[r]) = 1
      /\ IsFailureResponse(responses[r][1])
      /\ "error" \in DOMAIN responses[r][1].body.o
      /\ responses[r][1].body.o["error"].t = "string"
      /\ responses[r][1].body.o["error"].s # <<>>

\* C3: every response with status 200 and success: true carries status
\* "delivered" and a messageId that is a non-empty string, the identifier the
\* email-delivery API returned for the send of that request.
C3_SuccessCarriesMessageId ==
  \A r \in Reqs : \A i \in 1..Len(responses[r]) :
    IsSuccessResponse(responses[r][i]) =>
      /\ "status" \in DOMAIN responses[r][i].body.o
      /\ responses[r][i].body.o["status"] = JStr(<<"delivered">>)
      /\ "messageId" \in DOMAIN responses[r][i].body.o
      /\ responses[r][i].body.o["messageId"].t = "string"
      /\ responses[r][i].body.o["messageId"].s # <<>>
      /\ SendSucceeded(r)
      /\ responses[r][i].body.o["messageId"] = sendOutcome[r][1].v.o["data"].o["id"]

\* an exception reached the catch block of requestHandler for request r
ExceptionThrown(r) ==
  /\ request[r].method # "OPTIONS"
  /\ \/ pc[r] \notin {"idle", "awaitBody"} /\ ~request[r].body.ok
     \/ pc[r] \notin {"idle", "awaitBody"} /\ request[r].body.ok
          /\ IsNullish(request[r].body.v)
     \/ aiOutcome[r].k # "none" /\ customContent[r].t # "string"
     \/ SendThrew(r)

\* C4: for a non-OPTIONS request, an exception thrown while handling it
\* (an unparseable body included) gives exactly one response: status 500,
\* body with success: false, a string error and a timestamp; when the body
\* cannot be parsed no external API is called.
C4_ExceptionIsSingle500 ==
  \A r \in Reqs :
    /\ Len(responses[r]) <= 1
    /\ ExceptionThrown(r) =>
         /\ Len(responses[r]) = 1
         /\ IsFailureResponse(responses[r][1])
         /\ DOMAIN responses[r][1].body.o = {"success", "error", "timestamp"}
         /\ responses[r][1].body.o["error"].t = "string"
         /\ responses[r][1].body.o["timestamp"].t = "string"
    /\ (request[r].method # "OPTIONS" /\ ~request[r].body.ok) =>
         aiCalls[r] = 0 /\ sends[r] = <<>>

C4_Witness ==
  \E r \in Reqs :
    /\ request[r].method = "POST"
    /\ ~request[r].body.ok
    /\ pc[r] = "done"
    /\ Len(responses[r]) = 1
    /\ responses[r][1].status = 500

\* the content-generation step of r has finished with a text
ContentReady(r) == aiOutcome[r].k # "none" /\ customContent[r].t = "string"

\* C5: per invocation the delivery call starts only after content generation
\* has finished, each external API is called at most once (no retry), and
\* requests are not de-duplicated: every request that gets to the delivery
\* step causes a send of its own, also when another request had the same body.
C5_SequentialNoRetryNoDedup ==
  /\ \A r \in Reqs :
       /\ aiCalls[r] <= 1
       /\ Len(sends[r]) <= 1
       /\ Len(sendOutcome[r]) <= Len(sends[r])
       /\ pc[r] \in {"idle", "awaitBody", "awaitFetch", "awaitJson"} => sends[r] = <<>>
       /\ Len(sends[r]) = 1 => ContentReady(r) /\ aiCalls[r] = 1
       /\ ContentReady(r) => Len(sends[r]) = 1
  /\ \A r1 \in Reqs, r2 \in Reqs :
       (r1 # r2 /\ request[r1] = request[r2] /\ ContentReady(r1) /\ ContentReady(r2)) =>
         Cardinality({r \in {r1, r2} : Len(sends[r]) = 1}) = 2

C5_Witness ==
  \E r1 \in Reqs, r2 \in Reqs :
    /\ r1 # r2
    /\ request[r1] = request[r2]
    /\ request[r1].method = "POST"
    /\ pc[r1] = "done" /\ pc[r2] = "done"
    /\ SendThrew(r1)
    /\ Len(sends[r1]) = 1 /\ Len(sends[r2]) = 1
    /\ sends[r1] = sends[r2]

\* the message body of a rendered template: the tokens between <main> and
\* </main>
MainOf(html, n) == SubSeq(html, 2, n + 1)

\* C6: the message rendered into the email is the text of the first
\* completion whenever the text-generation call returned one, and otherwise
\* exactly the fallback message built from name and industry, for which no
\* further external call is made.
C6_ContentIsCompletionOrFallback ==
  \A r \in Reqs :
    Len(sends[r]) = 1 =>
      LET expected ==
            IF AIReturnedText(r) THEN CompletionOf(aiOutcome[r].v)
            ELSE JStr(<<"Hello ">> \o Interp(NameOf(r))
                      \o <<"! Welcome to our innovation community! We're excited to have a ">>
                      \o Interp(IndustryOf(r))
                      \o <<" professional join our network. [...] Your innovation adventure starts now!">>)
      IN /\ customContent[r] = expected
         /\ MainOf(sends[r][1].html, Len(expected.s)) = ReplaceNewlines(expected.s)
         /\ sends[r][1].html[Len(expected.s) + 2] = "</main><section>insights for "
         /\ aiCalls[r] = 1

C6_Witness ==
  \E r1 \in Reqs, r2 \in Reqs :
    /\ AIReturnedText(r1) /\ Len(sends[r1]) = 1
    /\ customContent[r1] = AIText
    /\ AIFailed(r2) /\ Len(sends[r2]) = 1
    /\ customContent[r2] # AIText

\* C7: an OPTIONS request is answered with an empty body and the CORS
\* headers, without reading the body or calling an external API; every
\* response of the handler includes the same CORS headers.
C7_PreflightAndCors ==
  \A r \in Reqs :
    /\ (request[r].method = "OPTIONS") =>
         /\ pc[r] = "done"
         /\ Len(responses[r]) = 1
         /\ responses[r][1].body = JNull
         /\ ~bodyRead[r]
         /\ aiCalls[r] = 0
         /\ sends[r] = <<>>
    /\ \A i \in 1..Len(responses[r]) :
         \A h \in DOMAIN HTTP_HEADERS_CORS :
           /\ h \in DOMAIN responses[r][i].headers
           /\ responses[r][i].headers[h] = HTTP_HEADERS_CORS[h]

C7_Witness ==
  \E r1 \in Reqs, r2 \in Reqs :
    /\ request[r1].method = "OPTIONS" /\ Len(responses[r1]) = 1
    /\ responses[r1][1].headers = HTTP_HEADERS_CORS
    /\ Len(responses[r2]) = 1 /\ responses[r2][1].status = 500


\* ------------------------------------------------------------------------
\* LeadCaptureForm: the component
\* ------------------------------------------------------------------------
\* the render that React runs synchronously at the end of a user event
RenderNow ==
  /\ rendered' = [formData |-> formData', errors |-> errors',
                  isSubmitted |-> isSubmitted', isLoading |-> isLoading']
  /\ renderPending' = FALSE

\* the form (and not the success view) is rendered; its inputs take edits
FormShown(view) == ~view.isSubmitted

\* mutant: the submit button is not disabled while loading
SubmitEnabled_NotDisabled(view) == FormShown(view)

\* a submit event can be raised: the form is rendered and its submit button
\* is not disabled
SubmitEnabled(view) == FormShown(view) /\ ~view.isLoading

\* mutant: the length check on the validation errors is missing
ShouldInvoke_Always(validationErrors) == TRUE

\* if (validationErrors.length === 0)
ShouldInvoke(validationErrors) == Len(validationErrors) = 0

\* mutant: the error returned by invoke is not checked
SendConfirmationThrows_IgnoresError(outcome) == outcome = "throw"

\* sendConfirmationEmail throws: invoke rejected, or it returned an error
SendConfirmationThrows(outcome) == outcome = "throw" \/ outcome = "error"

\* the catch block of handleFormSubmission takes every thrown error
SubmissionCatches(outcome) == TRUE

RemoveAt(q, i) == SubSeq(q, 1, i - 1) \o SubSeq(q, i + 1, Len(q))

\* onChange / onValueChange of a field
updateFormField(fieldName, value) ==
  /\ FormShown(rendered)
  /\ value # rendered.formData[fieldName]
  /\ formData' = [formData EXCEPT ![fieldName] = value]
  /\ errors' = IF HasFieldError(rendered.errors, fieldName)
               THEN WithoutField(errors, fieldName) ELSE errors
  /\ UNCHANGED <<isSubmitted, leadRecords, isLoading, inFlight, submits,
                 settledOk, settledFailed, uncaught, now>>
  /\ RenderNow
  /\ UNCHANGED hvars

\* onSubmit: handleFormSubmission up to its first await, or to its end when
\* validation fails
handleFormSubmission ==
  /\ SubmitEnabled(rendered)
  /\ submits < MaxSubmits
  /\ submits' = submits + 1
  /\ LET validationErrors == validateLeadForm(rendered.formData) IN
       /\ errors' = validationErrors
       /\ IF ShouldInvoke(validationErrors)
          THEN /\ inFlight' = Append(inFlight, [leadData |-> rendered.formData])
               /\ isLoading' = TRUE
          ELSE /\ inFlight' = inFlight
               /\ isLoading' = FALSE
  /\ UNCHANGED <<formData, isSubmitted, leadRecords>>
  /\ RenderNow
  /\ UNCHANGED <<settledOk, settledFailed, uncaught, now>>
  /\ UNCHANGED hvars

\* mutant: setIsLoading(false) is the last statement of the try block instead
\* of the finally block
InvokeSettles_NoFinally(i, outcome) ==
  /\ i \in 1..Len(inFlight)
  /\ inFlight' = RemoveAt(inFlight, i)
  /\ now' = now + 1
  /\ IF ~SendConfirmationThrows(outcome)
     THEN /\ leadRecords' = Append(leadRecords,
                 [name |-> inFlight[i].leadData.name,
                  email |-> inFlight[i].leadData.email,
                  industry |-> inFlight[i].leadData.industry,
                  submitted_at |-> now])
          /\ isSubmitted' = TRUE
          /\ formData' = INITIAL_FORM_STATE
          /\ isLoading' = FALSE
          /\ UNCHANGED uncaught
     ELSE UNCHANGED <<leadRecords, isSubmitted, formData, isLoading, uncaught>>
  /\ settledOk' = IF outcome = "ok" THEN settledOk + 1 ELSE settledOk
  /\ settledFailed' = IF outcome = "ok" THEN settledFailed ELSE settledFailed + 1
  /\ renderPending' = TRUE
  /\ UNCHANGED <<errors, rendered, submits>>
  /\ UNCHANGED hvars

\* mutant: the record is built from the current form state instead of the
\* formData the submission closed over
InvokeSettles_RecordsState(i, outcome) ==
  /\ i \in 1..Len(inFlight)
  /\ inFlight' = RemoveAt(inFlight, i)
  /\ now' = now + 1
  /\ IF ~SendConfirmationThrows(outcome)
     THEN /\ leadRecords' = Append(leadRecords,
                 [name |-> formData.name,
                  email |-> formData.email,
                  industry |-> formData.industry,
                  submitted_at |-> now])
          /\ isSubmitted' = TRUE
          /\ formData' = INITIAL_FORM_STATE
          /\ isLoading' = FALSE
          /\ UNCHANGED uncaught
     ELSE /\ isLoading' = FALSE
          /\ UNCHANGED <<leadRecords, isSubmitted, formData, uncaught>>
  /\ settledOk' = IF outcome = "ok" THEN settledOk + 1 ELSE settledOk
  /\ settledFailed' = IF outcome = "ok" THEN settledFailed ELSE settledFailed + 1
  /\ renderPending' = TRUE
  /\ UNCHANGED <<errors, rendered, submits>>
  /\ UNCHANGED hvars

\* supabase.functions.invoke settles and handleFormSubmission runs to its end
InvokeSettles(i, outcome) ==
  /\ i \in 1..Len(inFlight)
  /\ inFlight' = RemoveAt(inFlight, i)
  /\ now' = now + 1
  /\ IF ~SendConfirmationThrows(outcome)
     THEN /\ leadRecords' = Append(leadRecords,
                 [name |-> inFlight[i].leadData.name,
                  email |-> inFlight[i].leadData.email,
                  industry |-> inFlight[i].leadData.industry,
                  submitted_at |-> now])
          /\ isSubmitted' = TRUE
          /\ formData' = INITIAL_FORM_STATE
          /\ isLoading' = FALSE
          /\ UNCHANGED uncaught
     ELSE IF SubmissionCatches(outcome)
     THEN /\ isLoading' = FALSE
          /\ UNCHANGED <<leadRecords, isSubmitted, formData, uncaught>>
     ELSE /\ isLoading' = FALSE
          /\ uncaught' = TRUE
          /\ UNCHANGED <<leadRecords, isSubmitted, formData>>
  /\ settledOk' = IF outcome = "ok" THEN settledOk + 1 ELSE settledOk
  /\ settledFailed' = IF outcome = "ok" THEN settledFailed ELSE settledFailed + 1
  /\ renderPending' = TRUE
  /\ UNCHANGED <<errors, rendered, submits>>
  /\ UNCHANGED hvars

\* React renders the state set by the continuation of handleFormSubmission
Render ==
  /\ renderPending
  /\ rendered' = [formData |-> formData, errors |-> errors,
                  isSubmitted |-> isSubmitted, isLoading |-> isLoading]
  /\ renderPending' = FALSE
  /\ UNCHANGED <<formData, errors, isSubmitted, leadRecords, isLoading, inFlight,
                 submits, settledOk, settledFailed, uncaught, now>>
  /\ UNCHANGED hvars

\* mutant: the reset also empties the recorded leads
resetToNewSubmission_ClearsRecords ==
  /\ rendered.isSubmitted
  /\ isSubmitted' = FALSE
  /\ formData' = INITIAL_FORM_STATE
  /\ errors' = <<>>
  /\ leadRecords' = <<>>
  /\ UNCHANGED <<isLoading, inFlight, submits, settledOk,
                 settledFailed, uncaught, now>>
  /\ RenderNow
  /\ UNCHANGED hvars

\* onClick of the button of the success view
resetToNewSubmission ==
  /\ rendered.isSubmitted
  /\ isSubmitted' = FALSE
  /\ formData' = INITIAL_FORM_STATE
  /\ errors' = <<>>
  /\ UNCHANGED <<leadRecords, isLoading, inFlight, submits, settledOk,
                 settledFailed, uncaught, now>>
  /\ RenderNow
  /\ UNCHANGED hvars

FormNext ==
  \/ \E fieldName \in {"name", "email", "industry"} :
       \E value \in FieldInputs(fieldName) : updateFormField(fieldName, value)
  \/ handleFormSubmission
  \/ \E i \in 1..MaxSubmits, outcome \in InvokeOutcomes : InvokeSettles(i, outcome)
  \/ Render
  \/ resetToNewSubmission

FormSpec == Init /\ [][FormNext]_vars

\* every invocation settles (the promise of invoke resolves or rejects) and
\* React runs every render it has scheduled
FormLiveSpec ==
  /\ FormSpec
  /\ WF_vars(\E i \in 1..MaxSubmits, outcome \in InvokeOutcomes : InvokeSettles(i, outcome))
  /\ WF_vars(Render)

\* errors.find(error => error.field === fieldName)?.message, with "" for
\* undefined
getValidationError(errs, fieldName) ==
  IF HasFieldError(errs, fieldName)
  THEN errs[CHOOSE i \in 1..Len(errs) :
              /\ errs[i].field = fieldName
              /\ \A j \in 1..(i - 1) : errs[j].field # fieldName].message
  ELSE ""

\* ------------------------------------------------------------------------
\* Properties of LeadCaptureForm (checked under FormSpec)
\* ------------------------------------------------------------------------
\* the step is a submit event on a form whose fields fail validation
InvalidSubmitStep ==
  /\ submits' = submits + 1
  /\ validateLeadForm(rendered.formData) # <<>>

\* C8: a submission whose validation returns a non-empty error list invokes
\* no handler, appends no lead record and does not show the success view;
\* the handler is invoked only with form data that validates to the empty
\* list.
C8_InvalidNeverInvokes ==
  /\ [](\A i \in 1..Len(inFlight) : validateLeadForm(inFlight[i].leadData) = <<>>)
  /\ [][InvalidSubmitStep =>
          /\ inFlight' = inFlight
          /\ leadRecords' = leadRecords
          /\ ~isSubmitted' /\ ~rendered'.isSubmitted
          /\ errors' # <<>>]_vars

C8_Witness ==
  /\ submits = 1
  /\ errors # <<>>
  /\ formData.name = <<"J">>
  /\ inFlight = <<>>
  /\ settledOk + settledFailed = 0
  /\ leadRecords = <<>>

\* C9: at most one invocation of the send-confirmation handler is in flight
\* for one mounted form; while one is in flight the loading state is set and
\* rendered, so that no further submit event starts an invocation.
C9_OneInFlight ==
  /\ Len(inFlight) <= 1
  /\ inFlight # <<>> => isLoading /\ rendered.isLoading /\ ~rendered.isSubmitted

C9_Witness ==
  /\ Len(inFlight) = 1
  /\ submits < MaxSubmits
  /\ validateLeadForm(formData) = <<>>
  /\ formData # inFlight[1].leadData

\* the step is the end of an invocation that returned an error or threw
FailedInvokeStep == settledFailed' = settledFailed + 1

\* C10: when the handler invocation fails (invoke returns an error or
\* throws) the form stays on the form view: isSubmitted is and stays false,
\* no lead record is appended, the form data is unchanged, and the failure
\* does not leave handleFormSubmission.
C10_FailureStaysOnForm ==
  /\ [][FailedInvokeStep =>
          /\ ~isSubmitted /\ ~isSubmitted'
          /\ leadRecords' = leadRecords
          /\ formData' = formData
          /\ ~uncaught']_vars
  /\ [](~uncaught)

C10_Witness ==
  /\ settledFailed = 1
  /\ settledOk = 0
  /\ ~isSubmitted /\ ~rendered.isSubmitted
  /\ leadRecords = <<>>
  /\ validateLeadForm(formData) = <<>>
  /\ ~isLoading /\ ~renderPending

\* the step is the end of an invocation that returned without error
OkInvokeStep == settledOk' = settledOk + 1

\* C11: the number of locally recorded leads equals the number of handler
\* invocations that returned without error; a successful submission appends
\* exactly one record and shows the success view, and no other step (failed
\* submission, field edit, reset, render) adds, removes or changes a record.
C11_RecordsCountSuccesses ==
  /\ [](Len(leadRecords) = settledOk)
  /\ [][OkInvokeStep =>
          /\ Len(leadRecords') = Len(leadRecords) + 1
          /\ SubSeq(leadRecords', 1, Len(leadRecords)) = leadRecords
          /\ isSubmitted']_vars
  /\ [][~OkInvokeStep => leadRecords' = leadRecords]_vars

C11_Witness ==
  /\ settledOk = 2
  /\ settledFailed = 1
  /\ Len(leadRecords) = 2
  /\ ~isSubmitted /\ ~rendered.isSubmitted
  /\ formData.name = <<"J">>

\* position of a field in the order name, email, industry
FieldRank(fieldName) ==
  CASE fieldName = "name" -> 1
    [] fieldName = "email" -> 2
    [] fieldName = "industry" -> 3
    [] OTHER -> 0

\* at most one error per field, in the order name, email, industry
OnePerFieldInOrder(errs) ==
  /\ \A i \in 1..Len(errs) : FieldRank(errs[i].field) > 0
  /\ \A i \in 1..Len(errs), j \in 1..Len(errs) :
       i < j => FieldRank(errs[i].field) < FieldRank(errs[j].field)

\* the form data violates all three validation rules
ViolatesAllRules(data) ==
  /\ Len(Trim(data.name)) < 2 \/ Len(Trim(data.name)) > 50
  /\ ~IsEmailShape(data.email)
  /\ data.industry \notin INDUSTRY_OPTIONS

\* C12: the list validation returns (the list a submission stores in errors)
\* has at most one error per field, in the order name, email, industry, also
\* after field edits have removed entries; form data violating all three
\* rules gives exactly three errors, one per field in that order, and each
\* field then shows its own message.
C12_ErrorsOnePerFieldInOrder ==
  /\ [](OnePerFieldInOrder(errors))
  /\ [][submits' = submits + 1 =>
          /\ OnePerFieldInOrder(errors')
          /\ ViolatesAllRules(rendered.formData) =>
               /\ Len(errors') = 3
               /\ errors'[1].field = "name"
               /\ errors'[2].field = "email"
               /\ errors'[3].field = "industry"
               /\ getValidationError(errors', "name") = errors'[1].message
               /\ getValidationError(errors', "email") = "Please enter a valid email address"
               /\ getValidationError(errors', "industry") = "Please select an industry"]_vars

C12_Witness ==
  /\ submits > 0
  /\ formData = [name |-> <<"J">>, email |-> <<"b", "a", "d">>, industry |-> ""]
  /\ Len(errors) = 3
  /\ errors[1].field = "name" /\ errors[2].field = "email" /\ errors[3].field = "industry"

\* the step is the end of an invocation, with or without error
SettleStep == settledOk' + settledFailed' = settledOk + settledFailed + 1

\* C13: every submission clears the loading state: a submission that fails
\* validation ends with isLoading false, the end of an invocation (success
\* or failure) sets it to false, and, every invocation settling, a loading
\* state that is set or rendered is eventually cleared.
C13_LoadingEventuallyCleared ==
  /\ [][InvalidSubmitStep => ~isLoading' /\ ~rendered'.isLoading]_vars
  /\ [][SettleStep => ~isLoading']_vars
  /\ isLoading ~> ~isLoading
  /\ rendered.isLoading ~> ~rendered.isLoading

C13_Witness ==
  /\ submits = 3
  /\ settledOk = 1
  /\ settledFailed = 1
  /\ inFlight = <<>>
  /\ ~isLoading /\ ~rendered.isLoading

\* C14: the record appended by a successful submission has the name, email
\* and industry that were validated and sent for that submission, whatever
\* the user typed into the form during the flight; the success resets the
\* form data to the initial state, which discards those edits.
C14_RecordIsSubmittedData ==
  [][OkInvokeStep =>
       /\ Len(inFlight) = 1
       /\ Len(leadRecords') = Len(leadRecords) + 1
       /\ leadRecords'[Len(leadRecords')].name = inFlight[1].leadData.name
       /\ leadRecords'[Len(leadRecords')].email = inFlight[1].leadData.email
       /\ leadRecords'[Len(leadRecords')].industry = inFlight[1].leadData.industry
       /\ DOMAIN leadRecords'[Len(leadRecords')] = {"name", "email", "industry", "submitted_at"}
       /\ validateLeadForm(inFlight[1].leadData) = <<>>
       /\ formData' = INITIAL_FORM_STATE]_vars

C14_Witness ==
  /\ Len(leadRecords) = 1
  /\ renderPending
  /\ formData = INITIAL_FORM_STATE
  /\ rendered.formData.name = <<"J">>
  /\ leadRecords[1].name = <<"J", "o">>

====
